---- MODULE Spec2Model ----
(***************************************************************************)
(* Model of the resume RAG service (services/ragService.js, first variant  *)
(* of src/unnamed/part_004), its embedding client (src/GeminiEmbeddings.js)*)
(* and the chat routes that drive it (src/routes/chat.js).                 *)
(*                                                                         *)
(* A call of an async method is a process: its position (pc) moves from    *)
(* one await to the next, and everything between two awaits is one atomic  *)
(* step, as on the Node.js event loop.                                     *)
(*                                                                         *)
(* Spec      one long-lived RAGService instance driven one call at a time, *)
(*           the way src/unnamed/part_011 drives it.                       *)
(* HttpSpec  the HTTP server: concurrent requests, each handler building   *)
(*           its own RAGService (chat.js: `new RAGService()` per request). *)
(* RaceSpec  one RAGService instance whose methods are called concurrently.*)
(***************************************************************************)
EXTENDS Integers, Sequences, FiniteSets, TLC

\* ------------------------------------------------------------------ inputs

\* Callers in flight at once.
Proc == {1, 2}
\* The process that drives the long-lived instance in Spec.
Driver == CHOOSE p \in Proc : \A q \in Proc : p <= q
\* RAGService instances: 0 is the long-lived one, p is the one request p builds.
Inst == {0} \cup Proc

Owner == {"u1", "u2"}
Doc == {"d1", "d2", "d3", "d4"}
\* The (userId, resumeId) pairs direct callers of the service use: three
\* documents of u1, and one of u2 whose resumeId equals one of u1's.
Key == {<<"u1", "d1">>, <<"u1", "d2">>, <<"u1", "d3">>, <<"u2", "d1">>}
\* The documents chats are saved about.
ChatKey == {k \in Key : k[2] = "d1"}
ChatId == {"c1"}

\* A text is a sequence of characters (numbers); 0 stands for a paragraph break.
TextA == <<1>>
TextB == <<2, 2, 0, 3>>
Text == {TextA, TextB}
\* The texts a caller may index under a key: every key takes TextA, and the
\* first document of u1 may also be re-indexed with TextB.
TextsFor(k) == IF k = <<"u1", "d1">> THEN Text ELSE {TextA}
Question == {<<4>>}
FileName == "resume.pdf"

\* Program constants.
MaxAttempts == 3
MaxResumes == 3
TopK == 3

\* --------------------------------------------------------- pure functions

Put(m, k, v) == [x \in DOMAIN m \cup {k} |-> IF x = k THEN v ELSE m[x]]
Remove(m, k) == [x \in DOMAIN m \ {k} |-> m[x]]
Opt(m, k) == IF k \in DOMAIN m THEN <<m[k]>> ELSE <<>>
NoMap == [x \in {} |-> 0]

\* `resume_${userId}_${resumeId}`
collectionName(userId, resumeId) == "resume_" \o userId \o "_" \o resumeId

\* A resumeId that leaves one directory and comes back to the file of a pair.
Forge(k) == "x/../" \o collectionName(k[1], k[2])

\* path.join normalises the path it builds: `<dir>/../` inside it is dropped.
\* The collection names of this model that hold one are those made of a
\* Forge id; each is listed with the name whose file its path is.
Normalised ==
  [n \in {collectionName(u, Forge(k)) : u \in Owner, k \in Key} |->
     LET x == CHOOSE x \in Owner \X Key : n = collectionName(x[1], Forge(x[2]))
     IN collectionName(x[2][1], x[2][2])]

\* path.join(this.storageDir, `${name}.json`), as the name of the file's
\* entry in files.
filePath(name) == IF name \in DOMAIN Normalised THEN Normalised[name] ELSE name

\* RecursiveCharacterTextSplitter.createDocuments: the text cut at its
\* paragraph breaks, each piece one chunk (pageContent), in order.
RECURSIVE SplitFrom(_, _, _)
SplitFrom(text, pos, cur) ==
  IF pos > Len(text)
    THEN IF cur = <<>> THEN <<>> ELSE <<cur>>
    ELSE IF text[pos] = 0
      THEN (IF cur = <<>> THEN <<>> ELSE <<cur>>) \o SplitFrom(text, pos + 1, <<>>)
      ELSE SplitFrom(text, pos + 1, Append(cur, text[pos]))

createDocuments(text) == SplitFrom(text, 1, <<>>)

\* The vector the embedding provider returns for a text when it answers.
embedContent(text) ==
  << IF text[1] \in {1, 3, 4} THEN 1 ELSE IF text[1] = 6 THEN -1 ELSE 0,
     IF text[1] \in {2, 3} THEN 1 ELSE 0 >>

uuidv4(i) == <<"uuid", i>>

EmptyCollection(name) ==
  [name |-> name, documents |-> <<>>, embeddings |-> <<>>,
   metadata |-> <<>>, ids |-> <<>>]

\* Mutant: the rebuild appends to the previous chunk set instead of replacing it.
ClearedCollection_KeepOld(c) == c

\* collection.documents = []; ... ; collection.ids = []
ClearedCollection(c) ==
  [c EXCEPT !.documents = <<>>, !.embeddings = <<>>, !.metadata = <<>>, !.ids = <<>>]

\* Mutant: the metadata push is left out.
PushChunk_NoMetadata(c, i, chunk, embedding) ==
  [c EXCEPT !.ids = Append(@, uuidv4(i)),
            !.documents = Append(@, chunk),
            !.embeddings = Append(@, embedding)]

\* The four pushes of one loop iteration.
PushChunk(c, i, chunk, embedding) ==
  [c EXCEPT !.ids = Append(@, uuidv4(i)),
            !.documents = Append(@, chunk),
            !.embeddings = Append(@, embedding),
            !.metadata = Append(@, [source |-> "resume", index |-> i,
                                    chunkSize |-> Len(chunk)])]

\* Mutant: the snapshot is written without the chunk ids.
JSONstringify_NoIds(c) ==
  [json |-> <<c.name, c.documents, c.embeddings, c.metadata, <<>> >>]

\* JSON.stringify(collection, null, 2): the properties in insertion order.
JSONstringify(c) ==
  [json |-> <<c.name, c.documents, c.embeddings, c.metadata, c.ids>>]

\* JSON.parse of a snapshot file.
JSONparse(f) ==
  [name |-> f.json[1], documents |-> f.json[2], embeddings |-> f.json[3],
   metadata |-> f.json[4], ids |-> f.json[5]]

\* The bytes a writeFileSync that was cut short leaves: the first n of the
\* five properties (a cut inside a property parses no better).
Truncated(f, n) == [json |-> SubSeq(f.json, 1, n)]

\* JSON.parse throws a SyntaxError on a text that ends early.
ParseThrows(f) == Len(f.json) < 5

\* Mutant: chunksCount is taken from the text, not from the chunks.
ResumeDoc_CountText(text, nChunks) ==
  [fileName |-> FileName, resumeText |-> text, chunksCount |-> Len(text),
   textLength |-> Len(text)]

\* The Resume document findOneAndUpdate writes.
ResumeDoc(text, nChunks) ==
  [fileName |-> FileName, resumeText |-> text, chunksCount |-> nChunks,
   textLength |-> Len(text)]

\* --------------------------------------------------------------- ranking

Dot(a, b) == LET n == IF Len(a) < Len(b) THEN Len(a) ELSE Len(b)
                 f[j \in 0..n] == IF j = 0 THEN 0 ELSE f[j - 1] + a[j] * b[j]
             IN f[n]

\* dotProduct / (magnitudeA * magnitudeB), kept exact as num / sqrt(den);
\* den = 0 is the 0 / 0 of a zero vector, which JavaScript evaluates to NaN.
cosineSimilarity(vecA, vecB) ==
  [num |-> Dot(vecA, vecB), den |-> Dot(vecA, vecA) * Dot(vecB, vecB)]

IsNaN(s) == s.den = 0
\* The number 0.
Zero == [num |-> 0, den |-> 1]
\* x || 0: 0 and NaN are falsy.
OrZero(x) == IF IsNaN(x) \/ x.num = 0 THEN Zero ELSE x
SgnSq(n) == IF n >= 0 THEN n * n ELSE -(n * n)
\* x > y as numbers; false when either is NaN.
Greater(x, y) ==
  /\ ~IsNaN(x) /\ ~IsNaN(y)
  /\ SgnSq(x.num) * y.den > SgnSq(y.num) * x.den

\* (a, b) => b.similarity - a.similarity is positive: b sorts before a.
ComparatorPositive(a, b) == Greater(b.similarity, a.similarity)

\* Array.prototype.sort is stable: an element moves in front of exactly the
\* elements the comparator puts it before.
RECURSIVE InsertSorted(_, _)
InsertSorted(s, x) ==
  IF s = <<>> THEN <<x>>
  ELSE IF ComparatorPositive(s[Len(s)], x)
    THEN Append(InsertSorted(SubSeq(s, 1, Len(s) - 1), x), s[Len(s)])
    ELSE Append(s, x)

RECURSIVE SortBySimilarity(_)
SortBySimilarity(s) ==
  IF s = <<>> THEN <<>>
  ELSE InsertSorted(SortBySimilarity(SubSeq(s, 1, Len(s) - 1)), s[Len(s)])

Slice(s, n) == SubSeq(s, 1, IF Len(s) < n THEN Len(s) ELSE n)

\* similarities.sort(...).slice(0, 3) of queryResume.
TopResults(c, questionEmbedding) ==
  LET similarities ==
        [j \in 1..Len(c.embeddings) |->
           [index |-> j - 1,
            similarity |-> cosineSimilarity(questionEmbedding, c.embeddings[j]),
            document |-> c.documents[j]]]
  IN Slice(SortBySimilarity(similarities), TopK)

\* ------------------------------------------------------------------ state

VARIABLES
  collections,  \* this.collections of each RAGService instance: name -> collection
  files,        \* vector_storage/<name>.json: name -> file content
  resumes,      \* the Resume documents of MongoDB, by (userId, resumeId)
  chats,        \* the ChatHistory documents of MongoDB, by (userId, chatId)
  pc,           \* where each call stands
  loc,          \* the arguments and local variables of each call
  entry,        \* what the call's key held when the call began (for the claims)
  uploads,      \* whether the file multer stored for the request is on disk
  gem           \* a GeminiEmbeddings.embedDocuments call on a batch of texts

vars == <<collections, files, resumes, chats, pc, loc, entry, uploads, gem>>

NoResult == [kind |-> "none", n |-> 0, top |-> <<>>, confidence |-> Zero]

IdleLoc ==
  [route |-> "none", op |-> "", uid |-> "", rid |-> "", text |-> <<>>, chunks |-> <<>>,
   cid |-> "", i |-> 0, attempts |-> 0, held |-> <<>>, found |-> {}, res |-> NoResult]

\* No embedDocuments call on a batch: texts is the argument, k the text the
\* for loop is at, calls the provider calls made for each text so far.
NoGem == [pc |-> "idle", texts |-> <<>>, k |-> 0, attempts |-> 0, lastErr |-> "undefined",
          embeddings |-> <<>>, calls |-> <<>>]
NoEntry == [mem |-> <<>>, file |-> <<>>, rec |-> <<>>, raced |-> FALSE]

Init ==
  /\ collections = [i \in Inst |-> NoMap]
  /\ files = NoMap
  /\ resumes = NoMap
  /\ chats = NoMap
  /\ pc = [p \in Proc |-> "idle"]
  /\ loc = [p \in Proc |-> IdleLoc]
  /\ entry = [p \in Proc |-> NoEntry]
  /\ uploads = [p \in Proc |-> FALSE]
  /\ gem = NoGem

\* The instance a call runs on: a route handler's own, else the long-lived one.
InstOf(p) == IF loc[p].route = "none" THEN 0 ELSE p
KeyOf(p) == collectionName(loc[p].uid, loc[p].rid)
\* The { userId, resumeId } filter of the call's Resume operations.
RecOf(p) == <<loc[p].uid, loc[p].rid>>

\* The collection object the call's `collection` variable refers to: the
\* entry of this.collections, or the object it got there before a delete on
\* the same instance took the entry out of the map.
Obj(p) == IF loc[p].held # <<>> THEN loc[p].held[1]
          ELSE collections[InstOf(p)][KeyOf(p)]

\* Where a call goes when its method returns (ok) or throws.
Ret(p, ok) ==
  IF loc[p].route = "none" THEN (IF ok THEN "done" ELSE "failed")
  ELSE IF loc[p].route = "upload" THEN (IF ok THEN "up_stored" ELSE "up_catch")
  ELSE IF loc[p].route = "delete" THEN (IF ok THEN "rd_respond" ELSE "rd_retry")
  ELSE (IF ok THEN "responded" ELSE "error")

UserResumes(userId) == {k \in DOMAIN resumes : k[1] = userId}

\* The ids getUserResumes(userId) lists (Resume.find({userId}) succeeding).
getUserResumes(userId) == {k[2] : k \in UserResumes(userId)}

\* -------------------------------------------------- calls on the service

\* A processAndStoreResume call on the long-lived instance is in flight for
\* the collection.
Indexing(q, name) ==
  /\ pc[q] \in {"idx_init", "idx_split", "idx_clear", "idx_embed", "idx_upsert"}
  /\ InstOf(q) = 0
  /\ KeyOf(q) = name

\* What instance i and the stores hold for a key.
EntryAt(i, userId, resumeId) ==
  [mem |-> Opt(collections[i], collectionName(userId, resumeId)),
   file |-> Opt(files, collectionName(userId, resumeId)),
   rec |-> Opt(resumes, <<userId, resumeId>>),
   raced |-> FALSE]

\* A call begins; entry records what the observer saw for its key (seen),
\* and whether a processAndStoreResume call overlaps another one on the same
\* collection.
Begin(p, op, first, userId, resumeId, text, seen) ==
  /\ pc[p] = "idle"
  /\ pc' = [pc EXCEPT ![p] = first]
  /\ loc' = [loc EXCEPT ![p] = [IdleLoc EXCEPT !.op = op, !.uid = userId,
                                               !.rid = resumeId, !.text = text]]
  /\ entry' = [q \in Proc |->
        IF q = p
          THEN [seen EXCEPT !.raced =
                  /\ op = "processAndStoreResume"
                  /\ \E r \in Proc : Indexing(r, collectionName(userId, resumeId))]
        ELSE IF op = "processAndStoreResume" /\ Indexing(q, collectionName(userId, resumeId))
          THEN [entry[q] EXCEPT !.raced = TRUE]
        ELSE entry[q]]
  /\ UNCHANGED <<collections, files, resumes, chats, uploads, gem>>

CallProcessAndStoreResume(p) ==
  \E k \in Key : \E t \in TextsFor(k) : Begin(p, "processAndStoreResume", "idx_init", k[1], k[2], t, EntryAt(0, k[1], k[2]))

CallQueryResume(p) ==
  \E k \in Key : \E q \in Question : Begin(p, "queryResume", "qry_init", k[1], k[2], q, EntryAt(0, k[1], k[2]))

CallDeleteResume(p) ==
  \E k \in Key : Begin(p, "deleteResume", "del_init", k[1], k[2], <<>>, EntryAt(0, k[1], k[2]))

CallDeleteUserData(p) ==
  \E u \in Owner : Begin(p, "deleteUserData", "dud_init", u, "", <<>>, EntryAt(0, u, ""))

CallSaveChatHistory(p) ==
  \E k \in ChatKey : \E c \in ChatId :
    /\ pc[p] = "idle"
    /\ pc' = [pc EXCEPT ![p] = "chat_save"]
    /\ loc' = [loc EXCEPT ![p] = [IdleLoc EXCEPT !.op = "saveChatHistory",
                                        !.uid = k[1], !.rid = k[2], !.cid = c]]
    /\ UNCHANGED <<collections, files, resumes, chats, entry, uploads, gem>>

\* ------------------------------------------------- initializeCollection

\* Mutant: the snapshot is read even when the collection is cached.
initializeCollection_ReadAlways(m, name) ==
  IF filePath(name) \in DOMAIN files THEN Put(m, name, JSONparse(files[filePath(name)]))
  ELSE IF name \in DOMAIN m THEN m
  ELSE Put(m, name, EmptyCollection(name))

\* this.collections after initializeCollection(userId, resumeId), whose
\* return value is this.collections.get(name).
initializeCollection(m, name) ==
  IF name \in DOMAIN m THEN m
  ELSE IF filePath(name) \in DOMAIN files THEN Put(m, name, JSONparse(files[filePath(name)]))
  ELSE Put(m, name, EmptyCollection(name))

\* initializeCollection reads a snapshot that JSON.parse rejects.
InitThrows(m, name) ==
  /\ name \notin DOMAIN m
  /\ filePath(name) \in DOMAIN files /\ ParseThrows(files[filePath(name)])

\* The calls that hold a reference to a collection object.
HoldsRef(q) == pc[q] \in {"idx_split", "idx_clear", "idx_embed", "qry_check", "qry_embed"}

\* this.collections of p's instance and the calls' detached objects after p
\* assigns v to the fields of its collection object.
CollectionsWith(p, v) ==
  IF loc[p].held # <<>> THEN collections
  ELSE [collections EXCEPT ![InstOf(p)] = Put(@, KeyOf(p), v)]

HeldWith(p, v) == IF loc[p].held # <<>> THEN <<v>> ELSE <<>>

\* this.collections.delete(name) for every name in names, by p: the calls on
\* the same instance that hold one of these objects keep it.
Detached(p, names) ==
  [q \in Proc |->
     IF /\ q # p /\ InstOf(q) = InstOf(p) /\ HoldsRef(q) /\ loc[q].held = <<>>
        /\ KeyOf(q) \in names /\ KeyOf(q) \in DOMAIN collections[InstOf(p)]
     THEN [loc[q] EXCEPT !.held = <<collections[InstOf(p)][KeyOf(q)]>>]
     ELSE loc[q]]

\* ------------------------------------------------ processAndStoreResume

IndexInit(p) ==
  /\ pc[p] = "idx_init"
  /\ ~InitThrows(collections[InstOf(p)], KeyOf(p))
  /\ collections' = [collections EXCEPT ![InstOf(p)] = initializeCollection(@, KeyOf(p))]
  /\ pc' = [pc EXCEPT ![p] = "idx_split"]
  /\ UNCHANGED <<files, resumes, chats, loc, entry, uploads, gem>>

\* initializeCollection rethrows the SyntaxError, and the call that awaited
\* it (processAndStoreResume, queryResume) rethrows it to its caller.
InitializeFails(p) ==
  /\ pc[p] \in {"idx_init", "qry_init"}
  /\ InitThrows(collections[InstOf(p)], KeyOf(p))
  /\ pc' = [pc EXCEPT ![p] = Ret(p, FALSE)]
  /\ UNCHANGED <<collections, files, resumes, chats, loc, entry, uploads, gem>>

IndexSplit(p) ==
  /\ pc[p] = "idx_split"
  /\ loc' = [loc EXCEPT ![p].chunks = createDocuments(loc[p].text)]
  /\ pc' = [pc EXCEPT ![p] = "idx_clear"]
  /\ UNCHANGED <<collections, files, resumes, chats, entry, uploads, gem>>

\* Lines 162-165 and the entry of the loop; with no chunk the loop is
\* skipped and the snapshot written at once.
IndexClear(p) ==
  /\ pc[p] = "idx_clear"
  /\ LET c == ClearedCollection(Obj(p)) IN
       /\ collections' = CollectionsWith(p, c)
       /\ loc' = [loc EXCEPT ![p].held = HeldWith(p, c), ![p].i = 0, ![p].attempts = 0]
       /\ IF Len(loc[p].chunks) = 0
            THEN /\ files' = Put(files, filePath(KeyOf(p)), JSONstringify(c))
                 /\ pc' = [pc EXCEPT ![p] = "idx_upsert"]
            ELSE /\ files' = files
                 /\ pc' = [pc EXCEPT ![p] = "idx_embed"]
  /\ UNCHANGED <<resumes, chats, entry, uploads, gem>>

\* embedDocuments([chunk]) returns: the four pushes, then the next provider
\* call or, after the last chunk, writeFileSync and the upsert request.
IndexEmbedded(p) ==
  /\ pc[p] = "idx_embed"
  /\ LET i == loc[p].i
         chunk == loc[p].chunks[i + 1]
         c == PushChunk(Obj(p), i, chunk, embedContent(chunk))
     IN /\ collections' = CollectionsWith(p, c)
        /\ loc' = [loc EXCEPT ![p].held = HeldWith(p, c), ![p].i = i + 1,
                              ![p].attempts = 0]
        /\ IF i + 1 < Len(loc[p].chunks)
             THEN /\ files' = files
                  /\ pc' = pc
             ELSE /\ files' = Put(files, filePath(KeyOf(p)), JSONstringify(c))
                  /\ pc' = [pc EXCEPT ![p] = "idx_upsert"]
  /\ UNCHANGED <<resumes, chats, entry, uploads, gem>>

\* Mutant: the snapshot is written whether or not the loop completed.
EmbedAttemptFails_PersistAnyway(p) ==
  /\ pc[p] \in {"idx_embed", "qry_embed"}
  /\ loc' = [loc EXCEPT ![p].attempts = @ + 1]
  /\ IF loc[p].attempts + 1 < MaxAttempts
       THEN /\ pc' = pc
            /\ files' = files
       ELSE /\ pc' = [pc EXCEPT ![p] = Ret(p, FALSE)]
            /\ files' = IF pc[p] = "idx_embed"
                           THEN Put(files, filePath(KeyOf(p)), JSONstringify(Obj(p)))
                           ELSE files
  /\ UNCHANGED <<collections, resumes, chats, entry, uploads, gem>>

\* GeminiEmbeddings.embedDocuments: one provider call fails. Below three
\* failures the call is repeated after the backoff; the third is thrown.
EmbedAttemptFails(p) ==
  /\ pc[p] \in {"idx_embed", "qry_embed"}
  /\ IF loc[p].attempts + 1 < MaxAttempts
       THEN /\ loc' = [loc EXCEPT ![p].attempts = @ + 1]
            /\ pc' = pc
       ELSE /\ loc' = [loc EXCEPT ![p].attempts = @ + 1]
            /\ pc' = [pc EXCEPT ![p] = Ret(p, FALSE)]
  /\ UNCHANGED <<collections, files, resumes, chats, entry, uploads, gem>>

\* fs.writeFileSync throws after the last chunk was pushed.
IndexWriteFails(p) ==
  /\ pc[p] = "idx_embed"
  /\ loc[p].i + 1 = Len(loc[p].chunks)
  /\ LET i == loc[p].i
         chunk == loc[p].chunks[i + 1]
         c == PushChunk(Obj(p), i, chunk, embedContent(chunk))
     IN /\ collections' = CollectionsWith(p, c)
        /\ loc' = [loc EXCEPT ![p].held = HeldWith(p, c), ![p].i = i + 1]
  /\ pc' = [pc EXCEPT ![p] = Ret(p, FALSE)]
  /\ UNCHANGED <<files, resumes, chats, entry, uploads, gem>>

\* Resume.findOneAndUpdate throws: the metadata store did not take the write.
IndexUpsertFails(p) ==
  /\ pc[p] = "idx_upsert"
  /\ pc' = [pc EXCEPT ![p] = Ret(p, FALSE)]
  /\ UNCHANGED <<collections, files, resumes, chats, loc, entry, uploads, gem>>

\* Mutant: the document cap is applied to every upsert, also of a resumeId
\* the user already has.
IndexUpsert_CapOnAll(p) ==
  /\ pc[p] = "idx_upsert"
  /\ LET k == <<loc[p].uid, loc[p].rid>> IN
       IF Cardinality(UserResumes(loc[p].uid)) >= MaxResumes
         THEN /\ resumes' = resumes
              /\ pc' = [pc EXCEPT ![p] = Ret(p, FALSE)]
              /\ loc' = loc
         ELSE /\ resumes' = Put(resumes, k, ResumeDoc(loc[p].text, Len(loc[p].chunks)))
              /\ pc' = [pc EXCEPT ![p] = Ret(p, TRUE)]
              /\ loc' = [loc EXCEPT ![p].res =
                           [kind |-> "stored", n |-> Len(loc[p].chunks), top |-> <<>>, confidence |-> Zero]]
  /\ UNCHANGED <<collections, files, chats, entry, uploads, gem>>

\* Resume.findOneAndUpdate({userId, resumeId}, ..., {upsert: true}); the
\* insert of a resumeId another user's document holds breaks the unique index.
IndexUpsert(p) ==
  /\ pc[p] = "idx_upsert"
  /\ LET k == <<loc[p].uid, loc[p].rid>>
         duplicate == /\ k \notin DOMAIN resumes
                      /\ \E o \in DOMAIN resumes : o[2] = k[2]
     IN IF duplicate
          THEN /\ resumes' = resumes
               /\ pc' = [pc EXCEPT ![p] = Ret(p, FALSE)]
               /\ loc' = loc
          ELSE /\ resumes' = Put(resumes, k, ResumeDoc(loc[p].text, Len(loc[p].chunks)))
               /\ pc' = [pc EXCEPT ![p] = Ret(p, TRUE)]
               /\ loc' = [loc EXCEPT ![p].res =
                            [kind |-> "stored", n |-> Len(loc[p].chunks), top |-> <<>>, confidence |-> Zero]]
  /\ UNCHANGED <<collections, files, chats, entry, uploads, gem>>

\* ---------------------------------------------------------- queryResume

\* Mutant: a collection that initializeCollection created is saved at once.
QueryInit_SaveCreated(p) ==
  /\ pc[p] = "qry_init"
  /\ ~InitThrows(collections[InstOf(p)], KeyOf(p))
  /\ collections' = [collections EXCEPT ![InstOf(p)] = initializeCollection(@, KeyOf(p))]
  /\ files' = IF KeyOf(p) \in DOMAIN collections[InstOf(p)] \/ filePath(KeyOf(p)) \in DOMAIN files
                THEN files
                ELSE Put(files, filePath(KeyOf(p)), JSONstringify(EmptyCollection(KeyOf(p))))
  /\ pc' = [pc EXCEPT ![p] = "qry_check"]
  /\ UNCHANGED <<resumes, chats, loc, entry, uploads, gem>>

QueryInit(p) ==
  /\ pc[p] = "qry_init"
  /\ ~InitThrows(collections[InstOf(p)], KeyOf(p))
  /\ collections' = [collections EXCEPT ![InstOf(p)] = initializeCollection(@, KeyOf(p))]
  /\ pc' = [pc EXCEPT ![p] = "qry_check"]
  /\ UNCHANGED <<files, resumes, chats, loc, entry, uploads, gem>>

\* Mutant: the question is embedded before the collection is looked at.
QueryCheck_EmbedFirst(p) ==
  /\ pc[p] = "qry_check"
  /\ loc' = [loc EXCEPT ![p].attempts = 0]
  /\ pc' = [pc EXCEPT ![p] = "qry_embed"]
  /\ UNCHANGED <<collections, files, resumes, chats, entry, uploads, gem>>

\* collection.documents.length === 0 returns { success: false, message };
\* else the question goes to embedDocuments.
QueryCheck(p) ==
  /\ pc[p] = "qry_check"
  /\ IF Len(Obj(p).documents) = 0
       THEN /\ loc' = [loc EXCEPT ![p].res = [kind |-> "notIndexed", n |-> 0, top |-> <<>>, confidence |-> Zero]]
            /\ pc' = [pc EXCEPT ![p] = Ret(p, TRUE)]
       ELSE /\ loc' = [loc EXCEPT ![p].attempts = 0]
            /\ pc' = [pc EXCEPT ![p] = "qry_embed"]
  /\ UNCHANGED <<collections, files, resumes, chats, entry, uploads, gem>>

\* The question's embedding arrives: score, sort, slice, and ask Groq.
QueryEmbedded(p) ==
  /\ pc[p] = "qry_embed"
  /\ loc' = [loc EXCEPT ![p].res =
       [kind |-> "ranked", n |-> 0,
        top |-> TopResults(Obj(p), embedContent(loc[p].text)),
        confidence |-> Zero],
       ![p].attempts = 0]
  /\ pc' = [pc EXCEPT ![p] = "qry_gen"]
  /\ UNCHANGED <<collections, files, resumes, chats, entry, uploads, gem>>

\* Mutant: confidence is the score of the last chunk returned.
QueryAnswered_LastScore(p) ==
  /\ pc[p] = "qry_gen"
  /\ loc' = [loc EXCEPT ![p].res.kind = "answer",
                        ![p].res.confidence =
                           OrZero(loc[p].res.top[Len(loc[p].res.top)].similarity)]
  /\ pc' = [pc EXCEPT ![p] = Ret(p, TRUE)]
  /\ UNCHANGED <<collections, files, resumes, chats, entry, uploads, gem>>

\* The completion arrives: { success: true, answer, relevantChunks,
\* confidence: topResults[0]?.similarity || 0 }.
QueryAnswered(p) ==
  /\ pc[p] = "qry_gen"
  /\ loc' = [loc EXCEPT ![p].res.kind = "answer",
                        ![p].res.confidence =
                           IF loc[p].res.top = <<>> THEN Zero
                           ELSE OrZero(loc[p].res.top[1].similarity)]
  /\ pc' = [pc EXCEPT ![p] = Ret(p, TRUE)]
  /\ UNCHANGED <<collections, files, resumes, chats, entry, uploads, gem>>

\* groq.chat.completions.create throws.
QueryGenerationFails(p) ==
  /\ pc[p] = "qry_gen"
  /\ loc' = [loc EXCEPT ![p].res = NoResult]
  /\ pc' = [pc EXCEPT ![p] = Ret(p, FALSE)]
  /\ UNCHANGED <<collections, files, resumes, chats, entry, uploads, gem>>

\* --------------------------------------------------------- deleteResume

\* Mutant: the file and the record go, the cached collection stays.
DeleteResumeLocal_KeepCache(p) ==
  /\ pc[p] = "del_init"
  /\ files' = Remove(files, filePath(KeyOf(p)))
  /\ pc' = [pc EXCEPT ![p] = "del_db"]
  /\ UNCHANGED <<collections, loc, resumes, chats, entry, uploads, gem>>

\* collections.delete(name); unlinkSync if the file exists; deleteOne requested.
DeleteResumeLocal(p) ==
  /\ pc[p] = "del_init"
  /\ collections' = [collections EXCEPT ![InstOf(p)] = Remove(@, KeyOf(p))]
  /\ files' = Remove(files, filePath(KeyOf(p)))
  /\ loc' = Detached(p, {KeyOf(p)})
  /\ pc' = [pc EXCEPT ![p] = "del_db"]
  /\ UNCHANGED <<resumes, chats, entry, uploads, gem>>

\* Mutant: deleting a document that is not there is an error.
DeleteResumeDb_ThrowIfAbsent(p) ==
  /\ pc[p] = "del_db"
  /\ resumes' = Remove(resumes, <<loc[p].uid, loc[p].rid>>)
  /\ IF <<loc[p].uid, loc[p].rid>> \in DOMAIN resumes
       THEN /\ loc' = [loc EXCEPT ![p].res = [kind |-> "deleted", n |-> 0, top |-> <<>>, confidence |-> Zero]]
            /\ pc' = [pc EXCEPT ![p] = Ret(p, TRUE)]
       ELSE /\ loc' = loc
            /\ pc' = [pc EXCEPT ![p] = Ret(p, FALSE)]
  /\ UNCHANGED <<collections, files, chats, entry, uploads, gem>>

\* Mutant: the conversations about the document go with it.
DeleteResumeDb_Cascade(p) ==
  /\ pc[p] = "del_db"
  /\ resumes' = Remove(resumes, <<loc[p].uid, loc[p].rid>>)
  /\ chats' = [k \in {x \in DOMAIN chats :
                        ~(x[1] = loc[p].uid /\ chats[x].resumeId = loc[p].rid)} |-> chats[k]]
  /\ loc' = [loc EXCEPT ![p].res = [kind |-> "deleted", n |-> 0, top |-> <<>>, confidence |-> Zero]]
  /\ pc' = [pc EXCEPT ![p] = Ret(p, TRUE)]
  /\ UNCHANGED <<collections, files, entry, uploads, gem>>

\* Resume.deleteOne({ userId, resumeId }); return { success: true }.
DeleteResumeDb(p) ==
  /\ pc[p] = "del_db"
  /\ resumes' = Remove(resumes, <<loc[p].uid, loc[p].rid>>)
  /\ loc' = [loc EXCEPT ![p].res = [kind |-> "deleted", n |-> 0, top |-> <<>>, confidence |-> Zero]]
  /\ pc' = [pc EXCEPT ![p] = Ret(p, TRUE)]
  /\ UNCHANGED <<collections, files, chats, entry, uploads, gem>>

\* ------------------------------------------------------- deleteUserData

DeleteUserDataFind(p) ==
  /\ pc[p] = "dud_init"
  /\ loc' = [loc EXCEPT ![p].found = UserResumes(loc[p].uid)]
  /\ pc' = [pc EXCEPT ![p] = "dud_loop"]
  /\ UNCHANGED <<collections, files, resumes, chats, entry, uploads, gem>>

DeleteUserDataLoop(p) ==
  /\ pc[p] = "dud_loop"
  /\ LET names == {collectionName(k[1], k[2]) : k \in loc[p].found} IN
       /\ collections' = [collections EXCEPT ![InstOf(p)] =
                             [x \in DOMAIN @ \ names |-> @[x]]]
       /\ files' = [x \in DOMAIN files \ {filePath(n) : n \in names} |-> files[x]]
       /\ loc' = Detached(p, names)
  /\ pc' = [pc EXCEPT ![p] = "dud_db"]
  /\ UNCHANGED <<resumes, chats, entry, uploads, gem>>

\* Resume.deleteMany({userId}).
DeleteUserDataDb(p) ==
  /\ pc[p] = "dud_db"
  /\ resumes' = [k \in DOMAIN resumes \ UserResumes(loc[p].uid) |-> resumes[k]]
  /\ loc' = [loc EXCEPT ![p].res = [kind |-> "deletedAll", n |-> 0, top |-> <<>>, confidence |-> Zero]]
  /\ pc' = [pc EXCEPT ![p] = Ret(p, TRUE)]
  /\ UNCHANGED <<collections, files, chats, entry, uploads, gem>>

\* ------------------------------------------------------ saveChatHistory

SaveChatHistory(p) ==
  /\ pc[p] = "chat_save"
  /\ chats' = Put(chats, <<loc[p].uid, loc[p].cid>>, [resumeId |-> loc[p].rid])
  /\ loc' = [loc EXCEPT ![p].res = [kind |-> "saved", n |-> 0, top |-> <<>>, confidence |-> Zero]]
  /\ pc' = [pc EXCEPT ![p] = Ret(p, TRUE)]
  /\ UNCHANGED <<collections, files, resumes, entry, uploads, gem>>

\* --------------------------- deleteChatHistory, deleteUserChatsByResume

\* ChatHistory.deleteOne({ userId, chatId }).
DeleteChatHistory(p) ==
  /\ pc[p] = "chat_del"
  /\ chats' = Remove(chats, <<loc[p].uid, loc[p].cid>>)
  /\ loc' = [loc EXCEPT ![p].res = [kind |-> "chatDeleted", n |-> 0, top |-> <<>>, confidence |-> Zero]]
  /\ pc' = [pc EXCEPT ![p] = Ret(p, TRUE)]
  /\ UNCHANGED <<collections, files, resumes, entry, uploads, gem>>

\* ChatHistory.deleteMany({ userId, resumeId }).
DeleteUserChatsByResume(p) ==
  /\ pc[p] = "chat_del_resume"
  /\ chats' = [k \in {x \in DOMAIN chats :
                        ~(x[1] = loc[p].uid /\ chats[x].resumeId = loc[p].rid)} |-> chats[k]]
  /\ loc' = [loc EXCEPT ![p].res = [kind |-> "chatDeleted", n |-> 0, top |-> <<>>, confidence |-> Zero]]
  /\ pc' = [pc EXCEPT ![p] = Ret(p, TRUE)]
  /\ UNCHANGED <<collections, files, resumes, entry, uploads, gem>>

\* The caller has the result (or the error) and the slot is free again.
Return(p) ==
  /\ pc[p] \in {"done", "failed"}
  /\ pc' = [pc EXCEPT ![p] = "idle"]
  /\ loc' = [loc EXCEPT ![p] = IdleLoc]
  /\ entry' = [entry EXCEPT ![p] = NoEntry]
  /\ UNCHANGED <<collections, files, resumes, chats, uploads, gem>>

\* ------------------------------------- GeminiEmbeddings.embedDocuments

\* Batches of up to MaxTexts texts.
MaxTexts == 3
GemText == {<<1>>, <<2>>}
\* What the provider's SDK rejects with: Error objects, which are truthy.
GemError == {"Error"}

\* The for loop moves past text k: to the next text and its first provider
\* call, or to `return embeddings`.
GemAfterText(g) ==
  IF g.k < Len(g.texts)
    THEN [g EXCEPT !.k = g.k + 1, !.attempts = 0, !.lastErr = "undefined",
                   !.calls[g.k + 1] = 1, !.pc = "calling"]
    ELSE [g EXCEPT !.pc = "returned"]

\* After the while loop: if (lastErr) throw lastErr.
GemAfterLoop(g) ==
  IF g.lastErr # "undefined" THEN [g EXCEPT !.pc = "thrown"] ELSE GemAfterText(g)

\* embedDocuments(texts): the first embedContent call of the first text is
\* out, or the empty batch has returned [].
GemCall ==
  /\ gem.pc = "idle"
  /\ \E texts \in UNION {[1..n -> GemText] : n \in 0..MaxTexts} :
       gem' = IF texts = <<>> THEN [NoGem EXCEPT !.pc = "returned"]
              ELSE [pc |-> "calling", texts |-> texts, k |-> 1, attempts |-> 0,
                    lastErr |-> "undefined", embeddings |-> <<>>,
                    calls |-> [j \in 1..Len(texts) |-> IF j = 1 THEN 1 ELSE 0]]
  /\ UNCHANGED <<collections, files, resumes, chats, pc, loc, entry, uploads>>

\* embedContent resolves: push, lastErr = undefined, break.
GemAnswers ==
  /\ gem.pc = "calling"
  /\ gem' = GemAfterLoop([gem EXCEPT
                !.embeddings = Append(@, embedContent(gem.texts[gem.k])),
                !.lastErr = "undefined"])
  /\ UNCHANGED <<collections, files, resumes, chats, pc, loc, entry, uploads>>

\* Mutant: a fourth attempt is made.
GemFails_FourAttempts ==
  /\ gem.pc = "calling"
  /\ \E err \in GemError :
       LET g == [gem EXCEPT !.lastErr = err, !.attempts = @ + 1] IN
         gem' = IF g.attempts < MaxAttempts + 1 THEN [g EXCEPT !.pc = "backoff"]
                ELSE GemAfterLoop(g)
  /\ UNCHANGED <<collections, files, resumes, chats, pc, loc, entry, uploads>>

\* Mutant: a text that failed three times is left out of the result.
GemFails_SkipText ==
  /\ gem.pc = "calling"
  /\ \E err \in GemError :
       LET g == [gem EXCEPT !.lastErr = err, !.attempts = @ + 1] IN
         gem' = IF g.attempts < MaxAttempts THEN [g EXCEPT !.pc = "backoff"]
                ELSE GemAfterText(g)
  /\ UNCHANGED <<collections, files, resumes, chats, pc, loc, entry, uploads>>

\* embedContent rejects: lastErr = err, attempts += 1, and the backoff timer
\* of 300 * attempts ms if attempts < 3, else the loop is over.
GemFails ==
  /\ gem.pc = "calling"
  /\ \E err \in GemError :
       LET g == [gem EXCEPT !.lastErr = err, !.attempts = @ + 1] IN
         gem' = IF g.attempts < MaxAttempts THEN [g EXCEPT !.pc = "backoff"]
                ELSE GemAfterLoop(g)
  /\ UNCHANGED <<collections, files, resumes, chats, pc, loc, entry, uploads>>

\* The timer fires: the next embedContent call of the same text is out.
GemBackoffOver ==
  /\ gem.pc = "backoff"
  /\ gem' = [gem EXCEPT !.pc = "calling", !.calls[gem.k] = @ + 1]
  /\ UNCHANGED <<collections, files, resumes, chats, pc, loc, entry, uploads>>

\* The caller has the vectors (or the error).
GemDone ==
  /\ gem.pc \in {"returned", "thrown"}
  /\ gem' = NoGem
  /\ UNCHANGED <<collections, files, resumes, chats, pc, loc, entry, uploads>>

NextGem == GemCall \/ GemAnswers \/ GemFails \/ GemBackoffOver \/ GemDone

EmbedSpec == Init /\ [][NextGem]_vars

\* ------------------------------------------------------------ chat routes

\* const ragService = new RAGService(): the handler's own, empty, collections.
NewRAGService(p) == [collections EXCEPT ![p] = NoMap]

\* uuidv4() in a handler returns an id nothing holds yet; the first such id
\* of DocSeq stands for it.
DocSeq == <<"d1", "d2", "d3", "d4">>
InUse(d) ==
  \/ \E k \in DOMAIN resumes : k[2] = d
  \/ \E u \in Owner : collectionName(u, d) \in DOMAIN files
  \/ \E q \in Proc : loc[q].route = "upload" /\ loc[q].rid = d
FreshDocs == {j \in DOMAIN DocSeq : ~InUse(DocSeq[j])}
FreshDoc == DocSeq[CHOOSE j \in FreshDocs : \A x \in FreshDocs : j <= x]
\* Uploads that have not drawn their id yet.
Drawing == {q \in Proc : pc[q] \in {"up_list", "up_parse"}}

\* The response is out and the handler is over: its RAGService is garbage,
\* and the slot's next request brings its own upload.
Responded(p) ==
  /\ pc[p] \in {"responded", "error"}
  /\ pc' = [pc EXCEPT ![p] = "idle"]
  /\ loc' = [loc EXCEPT ![p] = IdleLoc]
  /\ entry' = [entry EXCEPT ![p] = NoEntry]
  /\ collections' = [collections EXCEPT ![p] = NoMap]
  /\ uploads' = [uploads EXCEPT ![p] = FALSE]
  /\ UNCHANGED <<files, resumes, chats, gem>>

\* The owners that upload, and the documents requests name.
HttpOwner == {"u1"}
HttpKey == {k \in Key : k[2] \in {"d1", "d2"}}

\* POST /upload-resume with a file multer stored.
ReqUpload(p) ==
  \E u \in HttpOwner :
    /\ pc[p] = "idle"
    /\ Cardinality(FreshDocs) > Cardinality(Drawing)
    /\ pc' = [pc EXCEPT ![p] = "up_list"]
    /\ loc' = [loc EXCEPT ![p] = [IdleLoc EXCEPT !.route = "upload", !.uid = u]]
    /\ collections' = NewRAGService(p)
    /\ uploads' = [uploads EXCEPT ![p] = TRUE]
    /\ UNCHANGED <<files, resumes, chats, entry, gem>>

\* POST /upload-resume without a file: 400.
ReqUploadNoFile(p) ==
  \E u \in Owner :
    /\ pc[p] = "idle"
    /\ pc' = [pc EXCEPT ![p] = "responded"]
    /\ loc' = [loc EXCEPT ![p] = [IdleLoc EXCEPT !.route = "upload", !.uid = u,
                                    !.res = [kind |-> "noFile", n |-> 0, top |-> <<>>, confidence |-> Zero]]]
    /\ UNCHANGED <<collections, files, resumes, chats, entry, uploads, gem>>

\* Mutant: the cap test is `> 3`.
UploadListed_OffByOne(p) ==
  /\ pc[p] = "up_list"
  /\ IF Cardinality(getUserResumes(loc[p].uid)) > MaxResumes
       THEN /\ uploads' = [uploads EXCEPT ![p] = FALSE]
            /\ loc' = [loc EXCEPT ![p].found = UserResumes(loc[p].uid),
                                  ![p].res = [kind |-> "limit", n |-> 0, top |-> <<>>, confidence |-> Zero]]
            /\ pc' = [pc EXCEPT ![p] = "responded"]
       ELSE /\ uploads' = uploads
            /\ loc' = [loc EXCEPT ![p].found = UserResumes(loc[p].uid)]
            /\ pc' = [pc EXCEPT ![p] = "up_parse"]
  /\ UNCHANGED <<collections, files, resumes, chats, entry, gem>>

\* getUserResumes has answered: the cap test on existingResumes (found), then
\* the request to pdf-parse.
UploadListed(p) ==
  /\ pc[p] = "up_list"
  /\ IF Cardinality(getUserResumes(loc[p].uid)) >= MaxResumes
       THEN /\ uploads' = [uploads EXCEPT ![p] = FALSE]
            /\ loc' = [loc EXCEPT ![p].found = UserResumes(loc[p].uid),
                                  ![p].res = [kind |-> "limit", n |-> 0, top |-> <<>>, confidence |-> Zero]]
            /\ pc' = [pc EXCEPT ![p] = "responded"]
       ELSE /\ uploads' = uploads
            /\ loc' = [loc EXCEPT ![p].found = UserResumes(loc[p].uid)]
            /\ pc' = [pc EXCEPT ![p] = "up_parse"]
  /\ UNCHANGED <<collections, files, resumes, chats, entry, gem>>

\* Resume.find throws inside getUserResumes: its catch returns [], and the
\* cap test sees no resumes.
UploadListFails(p) ==
  /\ pc[p] = "up_list"
  /\ loc' = [loc EXCEPT ![p].found = {}]
  /\ pc' = [pc EXCEPT ![p] = "up_parse"]
  /\ UNCHANGED <<collections, files, resumes, chats, entry, uploads, gem>>

\* pdf-parse has answered with the text of the file: none is a 400, else the
\* handler draws the resumeId and calls processAndStoreResume.  The uploads
\* of this model are of one chunk; existingResumes is not read again.
UploadParsed(p) ==
  /\ pc[p] = "up_parse"
  /\ \E t \in {TextA, <<>>} :
       IF t = <<>>
         THEN /\ uploads' = [uploads EXCEPT ![p] = FALSE]
              /\ loc' = [loc EXCEPT ![p].res = [kind |-> "noText", n |-> 0, top |-> <<>>, confidence |-> Zero]]
              /\ pc' = [pc EXCEPT ![p] = "responded"]
              /\ entry' = entry
         ELSE /\ uploads' = uploads
              /\ loc' = [loc EXCEPT ![p].op = "processAndStoreResume", ![p].found = {},
                                    ![p].rid = FreshDoc, ![p].text = t]
              /\ pc' = [pc EXCEPT ![p] = "idx_init"]
              /\ entry' = [entry EXCEPT ![p] = EntryAt(p, loc[p].uid, FreshDoc)]
  /\ UNCHANGED <<collections, files, resumes, chats, gem>>

\* pdf-parse throws.
UploadParseFails(p) ==
  /\ pc[p] = "up_parse"
  /\ pc' = [pc EXCEPT ![p] = "up_catch"]
  /\ UNCHANGED <<collections, files, resumes, chats, loc, entry, uploads, gem>>

\* processAndStoreResume returned: unlink the upload, ask getResumeInfo.
UploadStored(p) ==
  /\ pc[p] = "up_stored"
  /\ uploads' = [uploads EXCEPT ![p] = FALSE]
  /\ pc' = [pc EXCEPT ![p] = "up_info"]
  /\ UNCHANGED <<collections, files, resumes, chats, loc, entry, gem>>

UploadInfo(p) ==
  /\ pc[p] = "up_info"
  /\ loc' = [loc EXCEPT ![p].res.kind = "uploaded"]
  /\ pc' = [pc EXCEPT ![p] = "responded"]
  /\ UNCHANGED <<collections, files, resumes, chats, entry, uploads, gem>>

\* Mutant: the catch block answers without removing the upload.
UploadCatch_KeepFile(p) ==
  /\ pc[p] = "up_catch"
  /\ loc' = [loc EXCEPT ![p].res = NoResult]
  /\ pc' = [pc EXCEPT ![p] = "error"]
  /\ UNCHANGED <<collections, files, resumes, chats, entry, uploads, gem>>

\* The catch block: unlink the upload if it is still there, answer 500.
UploadCatch(p) ==
  /\ pc[p] = "up_catch"
  /\ uploads' = [uploads EXCEPT ![p] = FALSE]
  /\ loc' = [loc EXCEPT ![p].res = NoResult]
  /\ pc' = [pc EXCEPT ![p] = "error"]
  /\ UNCHANGED <<collections, files, resumes, chats, entry, gem>>

\* DELETE /resumes/:resumeId.
ReqDelete(p) ==
  \E u \in Owner : \E d \in Doc :
    /\ <<u, d>> \in HttpKey
    /\ pc[p] = "idle"
    /\ pc' = [pc EXCEPT ![p] = "rd_info"]
    /\ loc' = [loc EXCEPT ![p] = [IdleLoc EXCEPT !.route = "delete", !.uid = u, !.rid = d]]
    /\ collections' = NewRAGService(p)
    /\ UNCHANGED <<files, resumes, chats, entry, uploads, gem>>

\* getResumeInfo has answered: 404 without a document, else deleteResume.
DeleteInfo(p) ==
  /\ pc[p] = "rd_info"
  /\ IF <<loc[p].uid, loc[p].rid>> \in DOMAIN resumes
       THEN /\ loc' = [loc EXCEPT ![p].op = "deleteResume"]
            /\ pc' = [pc EXCEPT ![p] = "del_init"]
            /\ entry' = [entry EXCEPT ![p] = EntryAt(p, loc[p].uid, loc[p].rid)]
       ELSE /\ loc' = [loc EXCEPT ![p].res = [kind |-> "notFound", n |-> 0, top |-> <<>>, confidence |-> Zero]]
            /\ pc' = [pc EXCEPT ![p] = "responded"]
            /\ entry' = entry
  /\ UNCHANGED <<collections, files, resumes, chats, uploads, gem>>

DeleteRespond(p) ==
  /\ pc[p] = "rd_respond"
  /\ pc' = [pc EXCEPT ![p] = "responded"]
  /\ UNCHANGED <<collections, files, resumes, chats, loc, entry, uploads, gem>>

\* DELETE /resume-data.
ReqDeleteAll(p) ==
  \E u \in Owner :
    /\ pc[p] = "idle"
    /\ pc' = [pc EXCEPT ![p] = "dud_init"]
    /\ loc' = [loc EXCEPT ![p] = [IdleLoc EXCEPT !.route = "deleteAll",
                                    !.op = "deleteUserData", !.uid = u]]
    /\ collections' = NewRAGService(p)
    /\ UNCHANGED <<files, resumes, chats, entry, uploads, gem>>

\* POST /query with a question and a resumeId.  Two queries in flight
\* together touch nothing of each other, so one slot asks them.
ReqQuery(p) ==
  \E u \in Owner : \E d \in Doc : \E q \in Question :
    /\ <<u, d>> \in ChatKey
    /\ p = Driver
    /\ pc[p] = "idle"
    /\ pc' = [pc EXCEPT ![p] = "qry_init"]
    /\ loc' = [loc EXCEPT ![p] = [IdleLoc EXCEPT !.route = "query", !.op = "queryResume",
                                    !.uid = u, !.rid = d, !.text = q]]
    /\ collections' = NewRAGService(p)
    /\ entry' = [entry EXCEPT ![p] = [EntryAt(p, u, d) EXCEPT !.mem = <<>>]]
    /\ UNCHANGED <<files, resumes, chats, uploads, gem>>

\* ------------------------------------------------------- specifications

ServiceCall(p) ==
  \/ CallProcessAndStoreResume(p)
  \/ CallQueryResume(p)
  \/ CallDeleteResume(p)
  \/ CallDeleteUserData(p)
  \/ CallSaveChatHistory(p)

RagStep(p) ==
  \/ IndexInit(p) \/ IndexSplit(p) \/ IndexClear(p) \/ IndexEmbedded(p)
  \/ EmbedAttemptFails(p) \/ IndexUpsert(p)
  \/ QueryInit(p) \/ QueryCheck(p) \/ QueryEmbedded(p) \/ QueryAnswered(p)
  \/ QueryGenerationFails(p)
  \/ DeleteResumeLocal(p) \/ DeleteResumeDb(p)
  \/ DeleteUserDataFind(p) \/ DeleteUserDataLoop(p) \/ DeleteUserDataDb(p)

ServiceStep(p) == RagStep(p) \/ SaveChatHistory(p) \/ Return(p)

\* One call at a time on the long-lived instance.
Sequential(p) == p = Driver /\ \A q \in Proc : pc[q] = "idle"

\* The script ends and is run again: a new RAGService, with an empty
\* this.collections, over the snapshot files and documents that remain.
Restart ==
  /\ \A q \in Proc : pc[q] = "idle"
  /\ collections[0] # NoMap
  /\ collections' = [collections EXCEPT ![0] = NoMap]
  /\ UNCHANGED <<files, resumes, chats, pc, loc, entry, uploads, gem>>

Next ==
  \/ \E p \in Proc : (Sequential(p) /\ ServiceCall(p)) \/ ServiceStep(p)
  \/ Restart

Spec == Init /\ [][Next]_vars

HttpRequest(p) ==
  \/ ReqUpload(p) \/ ReqUploadNoFile(p) \/ ReqDelete(p) \/ ReqDeleteAll(p) \/ ReqQuery(p)

HttpStep(p) ==
  \/ UploadListed(p) \/ UploadParsed(p) \/ UploadParseFails(p) \/ UploadStored(p)
  \/ UploadInfo(p) \/ UploadCatch(p)
  \/ DeleteInfo(p) \/ DeleteRespond(p)
  \/ Responded(p)

\* Calls in flight together on the long-lived instance, all of them on the
\* collection of one owner and one document.
RaceKey == <<"u1", "d1">>

RaceCall(p) ==
  \/ \E t \in TextsFor(RaceKey) :
       Begin(p, "processAndStoreResume", "idx_init", RaceKey[1], RaceKey[2], t, NoEntry)
  \/ \E q \in Question :
       Begin(p, "queryResume", "qry_init", RaceKey[1], RaceKey[2], q, NoEntry)
  \/ Begin(p, "deleteResume", "del_init", RaceKey[1], RaceKey[2], <<>>, NoEntry)

RaceStep(p) ==
  \/ IndexInit(p) \/ IndexSplit(p) \/ IndexClear(p) \/ IndexEmbedded(p)
  \/ EmbedAttemptFails(p) \/ IndexUpsert(p)
  \/ QueryInit(p) \/ QueryCheck(p) \/ QueryEmbedded(p) \/ QueryAnswered(p)
  \/ QueryGenerationFails(p)
  \/ DeleteResumeLocal(p) \/ DeleteResumeDb(p)
  \/ Return(p)

NextRace == \E p \in Proc : RaceCall(p) \/ RaceStep(p)

RaceSpec == Init /\ [][NextRace]_vars

\* Calls in flight together on the long-lived instance, on different
\* (userId, resumeId) pairs: two pairs whose ids differ and whose collection
\* names are the same string, and a pair of another user with the resumeId
\* of the first. Queries come from one of the callers.
PairKey == {<<"u1", "d1_d2">>, <<"u1_d1", "d2">>, <<"u2", "d1_d2">>}

PairCall(p) ==
  \E k \in PairKey :
    \/ Begin(p, "processAndStoreResume", "idx_init", k[1], k[2], TextA, NoEntry)
    \/ /\ p = Driver
       /\ \E q \in Question : Begin(p, "queryResume", "qry_init", k[1], k[2], q, NoEntry)
    \/ Begin(p, "deleteResume", "del_init", k[1], k[2], <<>>, NoEntry)

PairStep(p) ==
  \/ IndexInit(p) \/ IndexSplit(p) \/ IndexClear(p) \/ IndexEmbedded(p)
  \/ EmbedAttemptFails(p) \/ IndexUpsert(p)
  \/ QueryInit(p) \/ QueryCheck(p) \/ QueryEmbedded(p) \/ QueryAnswered(p)
  \/ QueryGenerationFails(p)
  \/ DeleteResumeLocal(p) \/ DeleteResumeDb(p)
  \/ Return(p)

NextPair == \E p \in Proc : PairCall(p) \/ PairStep(p)

KeySpec == Init /\ [][NextPair]_vars

\* Conversations: the documents of ConvKey are indexed and deleted, and
\* conversations about them are saved and deleted, one call at a time.
ConvKey == {<<"u1", "d1">>, <<"u1", "d2">>, <<"u2", "d1">>}
ConvId == {"c1", "c2"}

ConvCall(p) ==
  \E k \in ConvKey :
    \/ Begin(p, "processAndStoreResume", "idx_init", k[1], k[2], TextA, EntryAt(0, k[1], k[2]))
    \/ Begin(p, "deleteResume", "del_init", k[1], k[2], <<>>, EntryAt(0, k[1], k[2]))
    \/ Begin(p, "deleteUserChatsByResume", "chat_del_resume", k[1], k[2], <<>>, NoEntry)
    \/ \E c \in ConvId :
         /\ pc[p] = "idle"
         /\ \E op \in {<<"saveChatHistory", "chat_save">>, <<"deleteChatHistory", "chat_del">>} :
              /\ pc' = [pc EXCEPT ![p] = op[2]]
              /\ loc' = [loc EXCEPT ![p] = [IdleLoc EXCEPT !.op = op[1], !.uid = k[1],
                                                  !.rid = k[2], !.cid = c]]
         /\ UNCHANGED <<collections, files, resumes, chats, entry, uploads, gem>>

ConvStep(p) ==
  \/ IndexInit(p) \/ IndexSplit(p) \/ IndexClear(p) \/ IndexEmbedded(p)
  \/ EmbedAttemptFails(p) \/ IndexUpsert(p)
  \/ DeleteResumeLocal(p) \/ DeleteResumeDb(p)
  \/ SaveChatHistory(p) \/ DeleteChatHistory(p) \/ DeleteUserChatsByResume(p)
  \/ Return(p)

NextConv == \E p \in Proc : (Sequential(p) /\ ConvCall(p)) \/ ConvStep(p)

ConvSpec == Init /\ [][NextConv]_vars

\* Two owners on the long-lived instance, one call at a time.  u2 indexes
\* TextB under d1.  u1 indexes TextA, under d2 and under a resumeId of its
\* own choice, and queries and deletes under both.
IsoKeyA == {<<"u1", "d2">>, <<"u1", Forge(<<"u2", "d1">>)>>}
IsoKeyB == {<<"u2", "d1">>}

IsoCall(p) ==
  \/ \E k \in IsoKeyB :
       Begin(p, "processAndStoreResume", "idx_init", k[1], k[2], TextB, EntryAt(0, k[1], k[2]))
  \/ \E k \in IsoKeyA :
       Begin(p, "processAndStoreResume", "idx_init", k[1], k[2], TextA, EntryAt(0, k[1], k[2]))
  \/ \E k \in IsoKeyA \cup IsoKeyB : \E q \in Question :
       Begin(p, "queryResume", "qry_init", k[1], k[2], q, EntryAt(0, k[1], k[2]))
  \/ \E k \in IsoKeyA :
       Begin(p, "deleteResume", "del_init", k[1], k[2], <<>>, EntryAt(0, k[1], k[2]))

NextIso == \E p \in Proc : (Sequential(p) /\ IsoCall(p)) \/ RaceStep(p)

IsoSpec == Init /\ [][NextIso]_vars

\* The process is killed while writeFileSync is writing the snapshot of the
\* last chunk's index call: the file holds what was written so far, every
\* call in flight is gone, and the service starts again with nothing cached.
CrashInWrite(p) ==
  /\ pc[p] = "idx_embed"
  /\ loc[p].i + 1 = Len(loc[p].chunks)
  /\ LET i == loc[p].i
         chunk == loc[p].chunks[i + 1]
         c == PushChunk(Obj(p), i, chunk, embedContent(chunk))
     IN \E n \in 0..5 : files' = Put(files, filePath(KeyOf(p)), Truncated(JSONstringify(c), n))
  /\ collections' = [i \in Inst |-> NoMap]
  /\ pc' = [q \in Proc |-> "idle"]
  /\ loc' = [q \in Proc |-> IdleLoc]
  /\ entry' = [q \in Proc |-> NoEntry]
  /\ UNCHANGED <<resumes, chats, uploads, gem>>

NextCrash ==
  \E p \in Proc : RaceCall(p) \/ RaceStep(p) \/ InitializeFails(p) \/ CrashInWrite(p)

CrashSpec == Init /\ [][NextCrash]_vars

\* Queries, one at a time, on a document that was indexed before: its text
\* had up to MaxRankChunks chunks, for which the provider answered any of
\* the vectors of embedContent, the zero vector among them.
MaxRankChunks == 4
RankKey == <<"u1", "d1">>
RankChunk == {<<1>>, <<2>>, <<3>>, <<5>>, <<6>>}
RankQuestion == {<<3>>, <<4>>, <<5>>, <<6>>}

\* The text whose chunks are the given ones.
RECURSIVE TextOf(_)
TextOf(chunks) ==
  IF Len(chunks) = 1 THEN chunks[1]
  ELSE chunks[1] \o <<0>> \o TextOf(Tail(chunks))

\* The collection the loop of processAndStoreResume builds from the chunks.
RECURSIVE PushAll(_, _, _)
PushAll(c, chunks, i) ==
  IF i >= Len(chunks) THEN c
  ELSE PushAll(PushChunk(c, i, chunks[i + 1], embedContent(chunks[i + 1])), chunks, i + 1)

RankInit ==
  \E chunks \in UNION {[1..n -> RankChunk] : n \in 1..MaxRankChunks} :
    LET name == collectionName(RankKey[1], RankKey[2])
        c == PushAll(EmptyCollection(name), chunks, 0)
    IN /\ collections = [i \in Inst |-> IF i = 0 THEN Put(NoMap, name, c) ELSE NoMap]
       /\ files = Put(NoMap, name, JSONstringify(c))
       /\ resumes = Put(NoMap, RankKey, ResumeDoc(TextOf(chunks), Len(chunks)))
       /\ chats = NoMap
       /\ pc = [p \in Proc |-> "idle"]
       /\ loc = [p \in Proc |-> IdleLoc]
       /\ entry = [p \in Proc |-> NoEntry]
       /\ uploads = [p \in Proc |-> FALSE]
       /\ gem = NoGem

RankCall(p) ==
  \E q \in RankQuestion :
    Begin(p, "queryResume", "qry_init", RankKey[1], RankKey[2], q, NoEntry)

RankStep(p) ==
  \/ QueryInit(p) \/ QueryCheck(p) \/ QueryEmbedded(p) \/ EmbedAttemptFails(p)
  \/ QueryAnswered(p) \/ QueryGenerationFails(p)
  \/ Return(p)

NextRank == \E p \in Proc : (Sequential(p) /\ RankCall(p)) \/ RankStep(p)

RankSpec == RankInit /\ [][NextRank]_vars

\* The server: requests in flight together, one RAGService each.
NextHttp == \E p \in Proc : HttpRequest(p) \/ HttpStep(p) \/ RagStep(p)

HttpSpec == Init /\ [][NextHttp]_vars

\* Upload requests in flight together, with every failure an upload can
\* meet; each promise a handler awaits is settled in the end.
UploadRequest(p) == ReqUpload(p) \/ ReqUploadNoFile(p)

UploadStep(p) ==
  \/ UploadListed(p) \/ UploadListFails(p) \/ UploadParsed(p) \/ UploadParseFails(p)
  \/ IndexInit(p) \/ IndexSplit(p) \/ IndexClear(p) \/ IndexEmbedded(p)
  \/ EmbedAttemptFails(p) \/ IndexWriteFails(p) \/ IndexUpsert(p) \/ IndexUpsertFails(p)
  \/ UploadStored(p) \/ UploadInfo(p) \/ UploadCatch(p)

NextUpload == \E p \in Proc : UploadRequest(p) \/ UploadStep(p) \/ Responded(p)

UploadSpec ==
  Init /\ [][NextUpload]_vars /\ \A p \in Proc : WF_vars(UploadStep(p))

\* The server with a metadata store whose reads can fail.
NextFault == NextHttp \/ \E p \in Proc : UploadListFails(p)

FaultSpec == Init /\ [][NextFault]_vars

\* ================================================================ claims

Range(f) == {f[x] : x \in DOMAIN f}
Returned(p, op) == pc[p] = "done" /\ loc[p].op = op

\* A processAndStoreResume call that failed because embedDocuments threw.
IndexFailedAtEmbedding(p) ==
  /\ pc[p] = "failed" /\ loc[p].op = "processAndStoreResume"
  /\ loc[p].attempts = MaxAttempts

\* The collection the call found for its key when it began: the cached one,
\* else the snapshot's, else an empty one.
EntryCollection(p) ==
  IF entry[p].mem # <<>> THEN entry[p].mem[1]
  ELSE IF entry[p].file # <<>> THEN JSONparse(entry[p].file[1])
  ELSE EmptyCollection(KeyOf(p))

\* C1: when embedDocuments throws during processAndStoreResume, the call
\* fails and the snapshot file and the Resume document of its key are what
\* they were when the call began.
C1_FailedIndexKeepsDurableState ==
  \A p \in Proc : IndexFailedAtEmbedding(p) =>
    /\ Opt(files, KeyOf(p)) = entry[p].file
    /\ Opt(resumes, RecOf(p)) = entry[p].rec

\* The embedding of the second chunk failed over a key that had a snapshot
\* and a document.
C1_Witness ==
  \E p \in Proc : /\ IndexFailedAtEmbedding(p)
                   /\ loc[p].i = 1
                   /\ entry[p].file # <<>> /\ entry[p].rec # <<>>

\* C2: when embedDocuments throws during processAndStoreResume, the cached
\* collection of the key is the one the call found.
C2_FailedIndexKeepsCollection ==
  \A p \in Proc : IndexFailedAtEmbedding(p) =>
    collections[InstOf(p)][KeyOf(p)] = EntryCollection(p)

\* C3: while a provider call of processAndStoreResume is pending, the
\* collection and the snapshot of its key are still what the call found.
C3_ProviderCallsBeforeMutation ==
  \A p \in Proc : pc[p] = "idx_embed" =>
    /\ Obj(p) = EntryCollection(p)
    /\ Opt(files, KeyOf(p)) = entry[p].file

\* C4: a successful processAndStoreResume over a key indexed before leaves
\* exactly the chunks of the new text in the cache and in the snapshot, as
\* many as the splitter produced, and a queryResume on that state returns no
\* chunk that only the old text had.
C4_ReindexReplaces ==
  \A p \in Proc : (Returned(p, "processAndStoreResume") /\ entry[p].rec # <<>>) =>
    LET k == KeyOf(p)
        new == createDocuments(loc[p].text)
        old == createDocuments(entry[p].rec[1].resumeText)
        c == collections[InstOf(p)][k]
    IN /\ c.documents = new
       /\ JSONparse(files[k]).documents = new
       /\ Len(c.documents) = Len(new) /\ Len(c.ids) = Len(new)
       /\ \A q \in Question :
            \A r \in Range(TopResults(c, embedContent(q))) :
              r.document \in Range(new) /\ r.document \notin (Range(old) \ Range(new))

\* A two-chunk text was replaced by a one-chunk text.
C4_Witness ==
  \E p \in Proc : /\ Returned(p, "processAndStoreResume")
                   /\ entry[p].rec # <<>>
                   /\ entry[p].rec[1].resumeText = TextB
                   /\ loc[p].text = TextA

\* C5: when processAndStoreResume returns, the cached collection of its key
\* and the content of its snapshot file are the same collection.
C5_MemoryEqualsSnapshot ==
  \A p \in Proc : Returned(p, "processAndStoreResume") =>
    /\ KeyOf(p) \in DOMAIN files
    /\ KeyOf(p) \in DOMAIN collections[InstOf(p)]
    /\ JSONparse(files[KeyOf(p)]) = collections[InstOf(p)][KeyOf(p)]

C5_Witness ==
  \E p \in Proc : /\ Returned(p, "processAndStoreResume")
                   /\ Len(collections[InstOf(p)][KeyOf(p)].ids) = 2

\* A key no query finds indexed: no snapshot, and no chunk in the cache.
NotIndexed(i, k) ==
  /\ k \notin DOMAIN files
  /\ k \notin DOMAIN collections[i] \/ collections[i][k].documents = <<>>

C7_AfterDelete ==
  \A p \in Proc : Returned(p, "deleteResume") =>
    /\ loc[p].rid \notin getUserResumes(loc[p].uid)
    /\ KeyOf(p) \notin DOMAIN files
    /\ KeyOf(p) \notin DOMAIN collections[InstOf(p)]

C7_QueryOfNotIndexed ==
  \A p \in Proc :
    ( /\ Returned(p, "queryResume")
      /\ entry[p].file = <<>>
      /\ entry[p].mem = <<>> \/ entry[p].mem[1].documents = <<>> )
    => loc[p].res.kind = "notIndexed"

C7_StaysNotIndexed ==
  \A k \in {collectionName(x[1], x[2]) : x \in Key} :
    ( /\ NotIndexed(0, k)
      /\ ~ \E p \in Proc : /\ loc'[p].op = "processAndStoreResume"
                            /\ collectionName(loc'[p].uid, loc'[p].rid) = k )
    => NotIndexed(0, k)'

\* C7: when deleteResume has returned, the document is not listed, its
\* snapshot is gone and its key is not indexed; a key stays not indexed until
\* a processAndStoreResume call works on it; and a queryResume that begins on
\* a key not indexed returns the not-indexed result.
C7_DeleteResume ==
  /\ [](C7_AfterDelete /\ C7_QueryOfNotIndexed)
  /\ [][C7_StaysNotIndexed]_vars

\* deleteResume returned for a key that was cached, had a snapshot and a document.
C7_Witness ==
  \E p \in Proc : /\ Returned(p, "deleteResume")
                   /\ entry[p].mem # <<>> /\ entry[p].file # <<>> /\ entry[p].rec # <<>>
                   /\ entry[p].mem[1].documents # <<>>

\* C9: the upsert of a resumeId the user already has a document for succeeds
\* whatever the number of the user's documents, replaces that document and
\* leaves the number unchanged.
C9_ReindexNeverCapped ==
  [][ \A p \in Proc :
        ( /\ pc[p] = "idx_upsert" /\ pc'[p] # "idx_upsert"
          /\ RecOf(p) \in DOMAIN resumes )
        => /\ pc'[p] = "done"
           /\ DOMAIN resumes' = DOMAIN resumes
           /\ resumes'[RecOf(p)] = ResumeDoc(loc[p].text, Len(loc[p].chunks)) ]_vars

\* A document was re-indexed while its owner had three documents.
C9_Witness ==
  \E p \in Proc : /\ Returned(p, "processAndStoreResume")
                   /\ entry[p].rec # <<>>
                   /\ Cardinality(UserResumes(loc[p].uid)) = MaxResumes

\* C10: when deleteUserData has returned, the user has no chat history, no
\* document, no snapshot and no cached collection left.
C10_DeleteUserDataRemovesChats ==
  \A p \in Proc : Returned(p, "deleteUserData") =>
    /\ \A c \in DOMAIN chats : c[1] # loc[p].uid
    /\ UserResumes(loc[p].uid) = {}
    /\ \A d \in Doc : collectionName(loc[p].uid, d) \notin DOMAIN files
    /\ \A d \in Doc : collectionName(loc[p].uid, d) \notin DOMAIN collections[InstOf(p)]

\* C6: in every state, under every interleaving of calls on one instance,
\* the four sequences of every in-memory collection (in this.collections or
\* held by a call after a delete took it out) have the same length, and
\* metadata[i].chunkSize is the length of documents[i]; metadata[i].index is
\* i in the collection a processAndStoreResume call is building whenever no
\* other processAndStoreResume call on the same collection overlapped it.
InMemory ==
  UNION {{collections[i][n] : n \in DOMAIN collections[i]} : i \in Inst}
    \cup {loc[p].held[1] : p \in {q \in Proc : loc[q].held # <<>>}}

SameLength(c) ==
  /\ Len(c.documents) = Len(c.ids)
  /\ Len(c.embeddings) = Len(c.ids)
  /\ Len(c.metadata) = Len(c.ids)

SizeAligned(c) ==
  \A i \in DOMAIN c.metadata :
    i \in DOMAIN c.documents => c.metadata[i].chunkSize = Len(c.documents[i])

\* metadata[i].index = i, positions counted from 0 as the code counts them.
IndexAligned(c) == \A i \in DOMAIN c.metadata : c.metadata[i].index = i - 1

Building(p) ==
  /\ loc[p].op = "processAndStoreResume"
  /\ pc[p] = "idx_embed"

C8_Rejected(p) ==
  pc[p] = "responded" /\ loc[p].route = "upload" /\ loc[p].res.kind = "limit"

C8_ListingStep(p) ==
  pc[p] = "up_list" /\ pc'[p] # "up_list" =>
    IF Cardinality(UserResumes(loc[p].uid)) >= MaxResumes
      THEN /\ pc'[p] = "responded" /\ loc'[p].res.kind = "limit"
           /\ resumes' = resumes /\ files' = files /\ collections' = collections
      ELSE pc'[p] = "up_parse"

C8_RejectedInert(p) ==
  C8_Rejected(p) =>
    /\ loc[p].rid = "" /\ collections[p] = NoMap
    /\ pc'[p] # pc[p] => resumes' = resumes /\ files' = files

C8_CapRejects == [][\A p \in Proc : C8_ListingStep(p) /\ C8_RejectedInert(p)]_vars

\* C11: every step of a deleteResume call that began on a key with no cached
\* collection, no snapshot and no document changes no store and does not
\* throw, so the call returns success; and when any deleteResume has
\* returned its key is in that state, so a second call changes nothing more.
EntryAbsent(p) == entry[p].mem = <<>> /\ entry[p].file = <<>> /\ entry[p].rec = <<>>

C11_AbsentDeleteStep ==
  \A p \in Proc :
    ( /\ loc[p].op = "deleteResume" /\ pc[p] \in {"del_init", "del_db"}
      /\ EntryAbsent(p) /\ pc'[p] # pc[p] )
    => /\ collections' = collections /\ files' = files
       /\ resumes' = resumes /\ chats' = chats
       /\ pc'[p] \in {"del_db", "done"}

C11_AfterDeleteAbsent ==
  \A p \in Proc : Returned(p, "deleteResume") =>
    /\ KeyOf(p) \notin DOMAIN collections[InstOf(p)]
    /\ KeyOf(p) \notin DOMAIN files
    /\ RecOf(p) \notin DOMAIN resumes
    /\ loc[p].res.kind = "deleted"

C11_DeleteIdempotent == [][C11_AbsentDeleteStep]_vars /\ []C11_AfterDeleteAbsent

\* deleteResume returned for a key that had nothing, while other documents
\* were stored.
C11_Witness ==
  \E p \in Proc : /\ Returned(p, "deleteResume") /\ EntryAbsent(p)
                   /\ DOMAIN resumes # {} /\ DOMAIN files # {}
                   /\ DOMAIN collections[InstOf(p)] # {}

\* C12: the initializeCollection step of a call leaves a cached collection of
\* its name as it is, whatever the snapshot file holds; with none cached and
\* a snapshot file, it caches the collection that file was written from;
\* with neither, it caches a collection of that name with four empty
\* sequences.  It changes no other cached collection and no file.
C12_InitStep ==
  \A p \in Proc :
    (pc[p] \in {"idx_init", "qry_init"} /\ pc'[p] # pc[p]) =>
      LET i == InstOf(p)
          name == KeyOf(p)
          m == collections[i]
          got == collections'[i][name]
      IN /\ name \in DOMAIN collections'[i]
         /\ \A n \in DOMAIN collections'[i] \ {name} :
              n \in DOMAIN m /\ collections'[i][n] = m[n]
         /\ files' = files
         /\ IF name \in DOMAIN m THEN got = m[name]
            ELSE IF name \in DOMAIN files THEN files[name] = JSONstringify(got)
            ELSE /\ got.name = name
                 /\ got.documents = <<>> /\ got.embeddings = <<>>
                 /\ got.metadata = <<>> /\ got.ids = <<>>

C12_InitializeCollection == [][C12_InitStep]_vars

\* A call got the cached collection of its key while the snapshot file of
\* the key held a different one.
C12_Witness ==
  \E p \in Proc :
    /\ pc[p] \in {"idx_split", "qry_check"}
    /\ entry[p].mem # <<>> /\ entry[p].file # <<>>
    /\ JSONstringify(entry[p].mem[1]) # entry[p].file[1]
    /\ Obj(p) = entry[p].mem[1]

\* A call loaded the collection of its key from the snapshot file.
C12_LoadedFromFile ==
  \E p \in Proc :
    /\ pc[p] \in {"idx_split", "qry_check"}
    /\ entry[p].mem = <<>> /\ entry[p].file # <<>>
    /\ Len(Obj(p).ids) = 2

\* C13: a queryResume call that finds no chunk in its collection returns
\* from that very step, with the not-indexed result (success false and a
\* message) and not by throwing; no call waits on the embedding or the
\* generation provider over a collection without chunks, and a call that
\* threw carries no not-indexed result.
C13_CheckStep ==
  \A p \in Proc :
    (pc[p] = "qry_check" /\ pc'[p] # pc[p] /\ Len(Obj(p).documents) = 0) =>
      pc'[p] = "done" /\ loc'[p].res.kind = "notIndexed"

C13_NoProviderOnEmpty ==
  \A p \in Proc :
    /\ pc[p] \in {"qry_embed", "qry_gen"} => Len(Obj(p).documents) > 0
    /\ (pc[p] = "failed" /\ loc[p].op = "queryResume") => loc[p].res.kind # "notIndexed"
    /\ (Returned(p, "queryResume") /\ loc[p].res.kind = "notIndexed") => loc[p].attempts = 0

C13_NotIndexedResult == [][C13_CheckStep]_vars /\ []C13_NoProviderOnEmpty

\* queryResume returned not-indexed for a key whose cached collection had
\* no chunks.
C13_Witness ==
  \E p \in Proc : /\ Returned(p, "queryResume") /\ loc[p].res.kind = "notIndexed"
                   /\ entry[p].mem # <<>>

\* x >= y and x = y as numbers; false when either is NaN.
Geq(x, y) ==
  /\ ~IsNaN(x) /\ ~IsNaN(y)
  /\ SgnSq(x.num) * y.den >= SgnSq(y.num) * x.den
Eq(x, y) == Geq(x, y) /\ Geq(y, x)

\* A queryResume call has ranked the chunks of its collection.
Ranked(p) == loc[p].op = "queryResume" /\ loc[p].res.kind \in {"ranked", "answer"}
RankedCollection(p) == collections[InstOf(p)][KeyOf(p)]
\* The similarity of chunk j (counted from 0) to the question of p.
Score(p, j) ==
  cosineSimilarity(embedContent(loc[p].text), RankedCollection(p).embeddings[j + 1])

\* The chunks returned are min(3, n) different chunks of the collection,
\* each with its own text and score, in non-increasing order of score; no
\* chunk left out scores higher than one returned; and of two chunks with
\* equal scores the one that comes first in the collection comes first (and
\* is the one returned, if only one is).
ProperRanking(p) ==
  LET c == RankedCollection(p)
      n == Len(c.embeddings)
      top == loc[p].res.top
      in == {top[i].index : i \in DOMAIN top}
  IN /\ Len(top) = IF n < 3 THEN n ELSE 3
     /\ Cardinality(in) = Len(top)
     /\ \A i \in DOMAIN top :
          /\ top[i].index \in 0..(n - 1)
          /\ top[i].document = c.documents[top[i].index + 1]
          /\ top[i].similarity = Score(p, top[i].index)
     /\ \A i, j \in DOMAIN top : i < j =>
          /\ Geq(top[i].similarity, top[j].similarity)
          /\ Eq(top[i].similarity, top[j].similarity) => top[i].index < top[j].index
     /\ \A j \in (0..(n - 1)) \ in : \A i \in DOMAIN top :
          /\ Geq(top[i].similarity, Score(p, j))
          /\ Eq(top[i].similarity, Score(p, j)) => top[i].index < j

\* C14: whenever queryResume has ranked a collection of n >= 1 chunks, the
\* chunks it returns are a proper ranking of that collection.
C14_TopThreeRanking == \A p \in Proc : Ranked(p) => ProperRanking(p)

\* The same, for the rankings in which every score is a number.
AllScoresNumbers(p) ==
  \A j \in 0..(Len(RankedCollection(p).embeddings) - 1) : ~IsNaN(Score(p, j))

C14_RankingOfNumbers ==
  \A p \in Proc : (Ranked(p) /\ AllScoresNumbers(p)) => ProperRanking(p)

\* Four chunks were ranked, with two equal scores among them and one score
\* that is lower.
C14_FourChunksRanked ==
  \E p \in Proc :
    /\ Ranked(p) /\ AllScoresNumbers(p)
    /\ Len(RankedCollection(p).embeddings) = 4
    /\ \E i, j \in 0..3 : i # j /\ Eq(Score(p, i), Score(p, j))
    /\ \E i, j \in 0..3 : ~Geq(Score(p, i), Score(p, j))

IsZeroVector(v) == \A j \in DOMAIN v : v[j] = 0

\* C15: every score queryResume computes is a number, and it is 0 when the
\* question's vector or the chunk's vector is the zero vector.
C15_CosineOfZeroVector ==
  \A p \in Proc : Ranked(p) =>
    \A i \in DOMAIN loc[p].res.top :
      LET r == loc[p].res.top[i] IN
        /\ ~IsNaN(r.similarity)
        /\ ( \/ IsZeroVector(embedContent(loc[p].text))
             \/ IsZeroVector(RankedCollection(p).embeddings[r.index + 1]) )
           => Eq(r.similarity, Zero)

\* A successful queryResume result.
Answered(p) == Returned(p, "queryResume") /\ loc[p].res.kind = "answer"

ConfidenceIsTopScore(p) ==
  LET top == loc[p].res.top
      confidence == loc[p].res.confidence
  IN IF top = <<>> THEN confidence = Zero
     ELSE /\ Eq(confidence, top[1].similarity)
          /\ Eq(confidence, Zero) => Eq(top[1].similarity, Zero)

\* C16: in every successful queryResume result, confidence is the score of
\* the first chunk returned, and is 0 only when that score is 0 (or there is
\* no chunk).
C16_ConfidenceIsTopScore == \A p \in Proc : Answered(p) => ConfidenceIsTopScore(p)

\* The same, for the results whose top score is a number.
C16_ConfidenceOfNumber ==
  \A p \in Proc :
    (Answered(p) /\ \A i \in DOMAIN loc[p].res.top : ~IsNaN(loc[p].res.top[i].similarity))
      => ConfidenceIsTopScore(p)

\* A result whose top score is negative, and whose last score is lower.
C16_NegativeTopScore ==
  \E p \in Proc :
    /\ Answered(p) /\ Len(loc[p].res.top) = 3
    /\ ~Geq(loc[p].res.top[1].similarity, Zero)
    /\ ~Geq(loc[p].res.top[3].similarity, loc[p].res.top[1].similarity)
    /\ ~IsNaN(loc[p].res.top[3].similarity)

\* C17: embedDocuments makes at most 3 provider calls for a text, none for a
\* text before the texts in front of it have succeeded, and none for a text
\* once it has succeeded; after a 1st or 2nd failure it waits and calls
\* again for the same text; it throws exactly when the 3rd call for a text
\* has failed, and makes no provider call for any text after that.
C17_CallCounts ==
  /\ \A j \in DOMAIN gem.calls : gem.calls[j] <= MaxAttempts
  /\ gem.pc \in {"calling", "backoff"} =>
       /\ \A j \in DOMAIN gem.calls : j > gem.k => gem.calls[j] = 0
       /\ \A j \in DOMAIN gem.calls : j < gem.k => gem.calls[j] >= 1
       /\ gem.pc = "calling" => gem.calls[gem.k] = gem.attempts + 1
       /\ gem.pc = "backoff" => gem.calls[gem.k] = gem.attempts /\ gem.attempts < MaxAttempts
  /\ gem.pc = "thrown" =>
       /\ gem.calls[gem.k] = MaxAttempts
       /\ \A j \in DOMAIN gem.calls : j > gem.k => gem.calls[j] = 0
  /\ gem.pc = "returned" => \A j \in DOMAIN gem.calls : gem.calls[j] >= 1

C17_CallSteps ==
  /\ (gem.pc # "idle" /\ gem'.pc # "idle") =>
       \A j \in DOMAIN gem.calls :
         /\ j < gem.k => gem'.calls[j] = gem.calls[j]
         /\ gem'.calls[j] >= gem.calls[j]
  /\ (gem.pc = "backoff" /\ gem' # gem) =>
       gem'.pc = "calling" /\ gem'.k = gem.k /\ gem'.calls[gem.k] = gem.calls[gem.k] + 1
  /\ (gem.pc = "calling" /\ gem'.pc = "thrown") => gem.calls[gem.k] = MaxAttempts
  /\ (gem.pc = "calling" /\ gem.calls[gem.k] < MaxAttempts /\ gem' # gem) =>
       gem'.pc \in {"backoff", "calling", "returned"}
  /\ (gem.pc \in {"thrown", "returned"} /\ gem' # gem) => gem'.pc = "idle"

C17_AtMostThreeAttempts == []C17_CallCounts /\ [][C17_CallSteps]_vars

\* The third call for the second text of a batch failed, the first text
\* having succeeded at its second call.
C17_Witness ==
  /\ gem.pc = "thrown" /\ gem.k = 2 /\ Len(gem.texts) = MaxTexts
  /\ gem.calls[1] = 2

\* C18: what embedDocuments returns has one vector for each text, the
\* vector of that text, in the order of the texts; a call ends by returning
\* that or by throwing, and while it runs it holds one vector for each text
\* it is past.
C18_AllOrNothing ==
  /\ gem.pc = "returned" =>
       /\ Len(gem.embeddings) = Len(gem.texts)
       /\ \A j \in DOMAIN gem.texts : gem.embeddings[j] = embedContent(gem.texts[j])
  /\ gem.pc \in {"calling", "backoff", "thrown"} => Len(gem.embeddings) = gem.k - 1

\* A batch of three texts was returned; one text succeeded at its third call.
C18_Witness ==
  /\ gem.pc = "returned" /\ Len(gem.texts) = MaxTexts
  /\ \E j \in DOMAIN gem.calls : gem.calls[j] = MaxAttempts
  /\ gem.texts[1] # gem.texts[2]

\* The step is one of the call of p.
C19_Acts(p) == pc'[p] # pc[p] \/ loc'[p] # loc[p]

\* A step of a call on one pair leaves the cached collection, the snapshot
\* file and the record of every other pair as they were.
C19_OthersUntouched(p) ==
  C19_Acts(p) =>
    \A k \in PairKey \ {RecOf(p)} :
      /\ Opt(collections'[0], collectionName(k[1], k[2])) = Opt(collections[0], collectionName(k[1], k[2]))
      /\ Opt(files', collectionName(k[1], k[2])) = Opt(files, collectionName(k[1], k[2]))
      /\ Opt(resumes', k) = Opt(resumes, k)

\* The records of other pairs do not make the upsert of a call fail: it
\* succeeds as it does when there is no other record.
C19_UpsertUnaffected(p) ==
  pc[p] = "idx_upsert" => pc'[p] # "failed"

\* C19: an index, query or delete on one (userId, resumeId) pair, in any
\* interleaving with calls on other pairs, changes neither the cached
\* collection, the snapshot file nor the record of another pair, and does
\* not change the outcome of a call on another pair.
C19_KeysIndependent ==
  [][\A p \in Proc : C19_OthersUntouched(p) /\ C19_UpsertUnaffected(p)]_vars

\* The two ways it fails, each on its own.
C19_NamesKeepApart == [][\A p \in Proc : C19_OthersUntouched(p)]_vars
C19_UpsertsKeepApart == [][\A p \in Proc : C19_UpsertUnaffected(p)]_vars

\* C20: whenever initializeCollection reads the snapshot file of a key, the
\* file holds a complete snapshot, and the call caches that snapshot: no
\* write, finished or cut short by a crash, leaves a reader a part of one.
C20_ReadStep ==
  \A p \in Proc :
    LET m == collections[InstOf(p)]
        name == KeyOf(p)
    IN (/\ pc[p] \in {"idx_init", "qry_init"} /\ pc'[p] # pc[p]
        /\ name \notin DOMAIN m /\ name \in DOMAIN files) =>
         /\ ~ParseThrows(files[name])
         /\ name \in DOMAIN collections'[InstOf(p)]
         /\ collections'[InstOf(p)][name] = JSONparse(files[name])

C20_SnapshotWriteAtomic == [][C20_ReadStep]_vars

\* C21: a failure of the metadata store inside getUserResumes reaches the
\* caller as a failure: a list the upload handler goes on with, as the
\* result of getUserResumes, is the list of the owner's records.
C21_ListStep ==
  \A p \in Proc :
    (pc[p] = "up_list" /\ pc'[p] = "up_parse") =>
      loc'[p].found = UserResumes(loc[p].uid)

C21_FailuresReported == [][C21_ListStep]_vars

\* The requests in flight that have a RAGService.
InFlight == {p \in Proc : pc[p] # "idle" /\ loc[p].route # "none"}

\* C22: the requests of the process work on one collection cache: what one
\* request has cached, rebuilt or deleted is what every other request in
\* flight finds cached.
C22_OneCache ==
  \A p \in InFlight : \A q \in InFlight : collections[p] = collections[q]

\* A delete request has removed the cache entry and the snapshot of a key
\* while a query request on the key keeps the chunks it loaded before.
C22_DeletedStillCached ==
  \E p \in InFlight : \E q \in InFlight :
    /\ loc[p].op = "deleteResume" /\ pc[p] = "rd_respond"
    /\ loc[q].op = "queryResume" /\ KeyOf(q) = KeyOf(p)
    /\ KeyOf(q) \in DOMAIN collections[q]
    /\ Len(collections[q][KeyOf(q)].documents) > 0

\* C23: when no call is between its start and its end, a pair has a Resume
\* record exactly if it has a snapshot file.
C23_RecordsAndSnapshotsPaired ==
  (\A p \in Proc : pc[p] \in {"idle", "done", "failed"}) =>
    \A k \in Key :
      k \in DOMAIN resumes <=> collectionName(k[1], k[2]) \in DOMAIN files

\* C24: no step of a deleteResume call changes a ChatHistory record, and a
\* step after which a ChatHistory record is gone is one of a
\* deleteChatHistory or a deleteUserChatsByResume call.
C24_ChatStep ==
  /\ \A p \in Proc :
       (loc[p].op = "deleteResume" /\ pc'[p] # pc[p]) => chats' = chats
  /\ (DOMAIN chats \ DOMAIN chats' # {}) =>
       \E p \in Proc : /\ loc[p].op \in {"deleteChatHistory", "deleteUserChatsByResume"}
                        /\ pc'[p] # pc[p]

C24_DeleteResumeKeepsChats == [][C24_ChatStep]_vars

\* deleteResume returned for a document that had a record, and a
\* conversation of the owner about the document is still stored.
C24_Witness ==
  \E p \in Proc :
    /\ Returned(p, "deleteResume") /\ entry[p].rec # <<>>
    /\ RecOf(p) \notin DOMAIN resumes
    /\ \E x \in DOMAIN chats : x[1] = loc[p].uid /\ chats[x].resumeId = loc[p].rid

\* deleteUserChatsByResume removed a conversation and left another one.
C24_ChatsRemoved ==
  \E p \in Proc :
    /\ Returned(p, "deleteUserChatsByResume")
    /\ DOMAIN chats # {} /\ Cardinality(DOMAIN chats) < Cardinality(ConvId) * 2

\* C25: when processAndStoreResume returns, with no other call on its key in
\* flight, the chunksStored it returns, the chunksCount of the key's Resume
\* record and the number of documents of the key's collection (cached and in
\* the snapshot) are one number, and the record's textLength is the length
\* of the text.
C25_CountsAgree ==
  \A p \in Proc : Returned(p, "processAndStoreResume") =>
    LET n == loc[p].res.n
        rec == resumes[RecOf(p)]
    IN /\ rec.chunksCount = n
       /\ Len(collections[InstOf(p)][KeyOf(p)].documents) = n
       /\ Len(JSONparse(files[KeyOf(p)]).documents) = n
       /\ n = Len(createDocuments(loc[p].text))
       /\ rec.textLength = Len(loc[p].text)

\* A text of two chunks was stored over a record of one chunk.
C25_Witness ==
  \E p \in Proc :
    /\ Returned(p, "processAndStoreResume") /\ loc[p].res.n = 2
    /\ entry[p].rec # <<>> /\ entry[p].rec[1].chunksCount = 1

\* C26: an owner never has more than MaxResumes Resume records.
C26_AtMostThreeRecords ==
  \A u \in Owner : Cardinality(UserResumes(u)) <= MaxResumes

\* No step of a call of u1 changes the cached collection, the snapshot file
\* or the Resume record of a pair of u2.
C27_StepOfA ==
  \A p \in Proc :
    (loc[p].uid = "u1" /\ pc'[p] # pc[p]) =>
      \A k \in IsoKeyB :
        /\ Opt(collections'[0], collectionName(k[1], k[2])) = Opt(collections[0], collectionName(k[1], k[2]))
        /\ Opt(files', filePath(collectionName(k[1], k[2]))) = Opt(files, filePath(collectionName(k[1], k[2])))
        /\ Opt(resumes', k) = Opt(resumes, k)

\* The chunks a query of u1 returns are chunks of the text u1 indexed.
C27_ResultOfA ==
  \A p \in Proc :
    (Returned(p, "queryResume") /\ loc[p].uid = "u1") =>
      \A r \in Range(loc[p].res.top) : r.document \in Range(createDocuments(TextA))

\* C27: with ownerId u1 and any resumeId, no call returns chunk text that u2
\* indexed, and no call changes or removes the cached collection, the
\* snapshot file or the Resume record of u2.
C27_OwnerIsolation == [][C27_StepOfA /\ C27_ResultOfA']_vars

\* The two ways it fails, each on its own.
C27_NoForeignChunks == [][C27_ResultOfA']_vars
C27_NoForeignChange == [][C27_StepOfA]_vars

\* u1 deleted under its forged resumeId, and the snapshot u2 had is gone
\* while u2's record remains.
C27_ForeignSnapshotRemoved ==
  \E p \in Proc :
    /\ Returned(p, "deleteResume") /\ loc[p].uid = "u1"
    /\ entry[p].file = <<>> /\ entry[p].rec = <<>>
    /\ \E k \in IsoKeyB : k \in DOMAIN resumes /\ collectionName(k[1], k[2]) \notin DOMAIN files

\* The chunk sequences of the texts that are indexed, each one complete.
CompleteChunkSets == {createDocuments(t) : t \in Text}

\* The step of a queryResume call that scores the chunks, taken while a
\* processAndStoreResume call on its key is in flight, scores the complete
\* chunk sequence of a text.
C28_ScoreStep ==
  \A p \in Proc :
    ( /\ pc[p] = "qry_embed" /\ pc'[p] = "qry_gen"
      /\ \E q \in Proc : Indexing(q, KeyOf(p)) )
    => Obj(p).documents \in CompleteChunkSets

\* A queryResume call does not report not-indexed while a
\* processAndStoreResume call on its key is in flight over a snapshot that
\* holds chunks.
C28_CheckStep ==
  \A p \in Proc :
    ( /\ pc[p] = "qry_check" /\ pc'[p] # pc[p]
      /\ \E q \in Proc : Indexing(q, KeyOf(p))
      /\ KeyOf(p) \in DOMAIN files
      /\ Len(JSONparse(files[KeyOf(p)]).documents) > 0 )
    => loc'[p].res.kind # "notIndexed"

\* C28: a queryResume call in flight together with a processAndStoreResume
\* call on its key scores the complete chunk sequence of the text indexed
\* before or of the text being indexed, and does not report not-indexed when
\* there were chunks before.
C28_QueryNeverSeesPartial == [][C28_ScoreStep /\ C28_CheckStep]_vars

\* The two ways it fails, each on its own.
C28_ScoresComplete == [][C28_ScoreStep]_vars
C28_NoFalseNotIndexed == [][C28_CheckStep]_vars

\* C29: a step of a queryResume call changes no snapshot file, no Resume
\* record and no ChatHistory record, and leaves every cached collection as it
\* is; all it may do to the cache is add the collection of its own key, as
\* the snapshot file has it or empty.
C29_QueryStep ==
  \A p \in Proc :
    (loc[p].op = "queryResume" /\ (pc'[p] # pc[p] \/ loc'[p] # loc[p])) =>
      /\ files' = files /\ resumes' = resumes /\ chats' = chats
      /\ \A i \in Inst :
           /\ \A n \in DOMAIN collections[i] :
                n \in DOMAIN collections'[i] /\ collections'[i][n] = collections[i][n]
           /\ \A n \in DOMAIN collections'[i] \ DOMAIN collections[i] :
                /\ i = InstOf(p) /\ n = KeyOf(p)
                /\ collections'[i][n] =
                     IF n \in DOMAIN files THEN JSONparse(files[n]) ELSE EmptyCollection(n)

C29_QueryReadOnly == [][C29_QueryStep]_vars

\* A query was answered from a collection it loaded from the snapshot file.
C29_Witness ==
  \E p \in Proc :
    /\ Returned(p, "queryResume") /\ loc[p].res.kind = "answer"
    /\ entry[p].mem = <<>> /\ entry[p].file # <<>>
    /\ KeyOf(p) \in DOMAIN collections[InstOf(p)]

\* A query failed at the provider, and one reported not-indexed for a key
\* for which it cached an empty collection.
C29_QueryFailed ==
  \E p \in Proc : pc[p] = "failed" /\ loc[p].op = "queryResume"
C29_QueryCachedEmpty ==
  \E p \in Proc :
    /\ Returned(p, "queryResume") /\ loc[p].res.kind = "notIndexed"
    /\ entry[p].mem = <<>> /\ KeyOf(p) \in DOMAIN collections[InstOf(p)]

\* The response of an upload request is out.
UploadAnswered(p) == loc[p].route = "upload" /\ pc[p] \in {"responded", "error"}

\* C30: an upload request whose file multer stored responds in the end, and
\* when its response is out the stored file is gone.
C30_UploadRespondsAndCleansUp ==
  /\ \A p \in Proc : uploads[p] ~> UploadAnswered(p)
  /\ [](\A p \in Proc : UploadAnswered(p) => ~uploads[p])

\* An upload answered 500 after its indexing threw at the upsert.
C30_Witness ==
  \E p \in Proc :
    /\ UploadAnswered(p) /\ pc[p] = "error" /\ ~uploads[p]
    /\ KeyOf(p) \in DOMAIN files /\ RecOf(p) \notin DOMAIN resumes

\* The other ways out: the cap, no text, stored, and a throw of pdf-parse,
\* of embedDocuments and of writeFileSync.
C30_AnsweredLimit == \E p \in Proc : UploadAnswered(p) /\ loc[p].res.kind = "limit"
C30_AnsweredNoText == \E p \in Proc : UploadAnswered(p) /\ loc[p].res.kind = "noText"
C30_AnsweredUploaded == \E p \in Proc : UploadAnswered(p) /\ loc[p].res.kind = "uploaded"
C30_AnsweredParseError ==
  \E p \in Proc : UploadAnswered(p) /\ pc[p] = "error" /\ loc[p].rid = ""
C30_AnsweredEmbedError ==
  \E p \in Proc : UploadAnswered(p) /\ pc[p] = "error" /\ loc[p].attempts = MaxAttempts
C30_AnsweredWriteError ==
  \E p \in Proc :
    /\ UploadAnswered(p) /\ pc[p] = "error" /\ loc[p].rid # ""
    /\ loc[p].attempts < MaxAttempts /\ KeyOf(p) \notin DOMAIN files

====
